---- MODULE Spec2Model ----
(***************************************************************************)
(* Model of src/lib/validation.ts: the file upload guard                   *)
(* (validateFileUpload), the string sanitizer (sanitizeString) and the     *)
(* schema validation engine (validateInput over the registered schemas).   *)
(*                                                                         *)
(* A JavaScript string is a sequence of one-character strings; the null    *)
(* character is written "NUL".                                             *)
(***************************************************************************)
EXTENDS Integers, Sequences, FiniteSets, TLC

VARIABLES pc, file, fileResult, sanIn, sanOut, sanOut2,
          vSchema, vFields, vInput, vResult, vResult2

vars == <<pc, file, fileResult, sanIn, sanOut, sanOut2,
          vSchema, vFields, vInput, vResult, vResult2>>

valVars == <<vSchema, vFields, vInput, vResult, vResult2>>

(***************************************************************************)
(* Generic string helpers                                                  *)
(***************************************************************************)
\* n copies of the character c
Rep(c, n) == [i \in 1..n |-> c]

\* all sequences over alphabet A of length at most n
SeqsUpTo(A, n) == UNION {[1..k -> A] : k \in 0..n}

\* RegExp.prototype.test for a pattern that is a single character class
HasCharIn(s, class) == \E i \in 1..Len(s) : s[i] \in class

\* RegExp.prototype.test for a literal two-character pattern
HasPair(s, a, b) == \E i \in 1..(Len(s) - 1) : s[i] = a /\ s[i + 1] = b

NoValue == [none |-> TRUE]

\* the validation engine's variables while another operation is modelled
ValIdle ==
    /\ vSchema = ""
    /\ vFields = <<>>
    /\ vInput = NoValue
    /\ vResult = NoValue
    /\ vResult2 = NoValue

(***************************************************************************)
(* File upload guard                                                       *)
(***************************************************************************)
PDF_TYPE == "application/pdf"

MAX_FILE_SIZE == 50 * 1024 * 1024

MAX_NAME_LENGTH == 255

MsgOnlyPdf == "Only PDF files are allowed"

MsgFileSize == "File size must be less than 50MB"

MsgFileName == "Invalid file name"

\* the character class of the second suspicious pattern, /[<>:"|?*]/
ReservedChars == {"<", ">", ":", "\"", "|", "?", "*"}

\* suspiciousPatterns.some(pattern => pattern.test(name))
Suspicious(name) ==
    \/ HasPair(name, ".", ".")
    \/ HasCharIn(name, ReservedChars)
    \/ (Len(name) >= 1 /\ name[1] = ".")
    \/ HasCharIn(name, {"NUL"})

Rejected(msg) == [valid |-> FALSE, hasError |-> TRUE, error |-> msg]

Accepted == [valid |-> TRUE, hasError |-> FALSE, error |-> ""]

\* the name test without the upper length limit
NameCheckNoLimit(name) == Len(name) = 0

\* !file.name || file.name.length > 255
NameCheck(name) == Len(name) = 0 \/ Len(name) > MAX_NAME_LENGTH

\* the checks in the opposite order of the first two
validateFileUploadSizeFirst(f) ==
    IF f.size > MAX_FILE_SIZE THEN Rejected(MsgFileSize)
    ELSE IF f.type # PDF_TYPE THEN Rejected(MsgOnlyPdf)
    ELSE IF NameCheck(f.name) THEN Rejected(MsgFileName)
    ELSE IF Suspicious(f.name) THEN Rejected(MsgFileName)
    ELSE Accepted

validateFileUpload(f) ==
    IF f.type # PDF_TYPE THEN Rejected(MsgOnlyPdf)
    ELSE IF f.size > MAX_FILE_SIZE THEN Rejected(MsgFileSize)
    ELSE IF NameCheck(f.name) THEN Rejected(MsgFileName)
    ELSE IF Suspicious(f.name) THEN Rejected(MsgFileName)
    ELSE Accepted

\* ---- inputs of the upload guard ----
MaxCoreLen == 2

MaxLead == 1

FileTypes == {PDF_TYPE, "image/png"}

FileSizes == {10, MAX_FILE_SIZE, MAX_FILE_SIZE + 1, 60 * 1024 * 1024}

NameAlphabet == {"a", ".", "<", "NUL", "/"}

NameCores ==
    SeqsUpTo(NameAlphabet, MaxCoreLen) \cup {<<c>> : c \in ReservedChars}

Trails == {0} \cup ((MAX_NAME_LENGTH - MaxCoreLen - 1)..MAX_NAME_LENGTH)

FileNames ==
    {Rep("a", l) \o c \o Rep("a", t) :
        l \in 0..MaxLead, c \in NameCores, t \in Trails}

Files == [type : FileTypes, size : FileSizes, name : FileNames]

InitUpload ==
    /\ pc = "start"
    /\ file \in Files
    /\ fileResult = NoValue
    /\ sanIn = <<>>
    /\ sanOut = <<>>
    /\ sanOut2 = <<>>
    /\ ValIdle

ValidateFileUpload ==
    /\ pc = "start"
    /\ pc' = "done"
    /\ fileResult' = validateFileUpload(file)
    /\ UNCHANGED <<file, sanIn, sanOut, sanOut2, valVars>>

NextUpload == ValidateFileUpload

SpecUpload == InitUpload /\ [][NextUpload]_vars

(***************************************************************************)
(* String sanitizer                                                        *)
(***************************************************************************)
\* String.prototype.replace without the g flag: the first occurrence only
RECURSIVE ReplaceFirst(_, _, _)
ReplaceFirst(s, ch, repl) ==
    IF s = <<>> THEN <<>>
    ELSE IF Head(s) = ch THEN repl \o Tail(s)
    ELSE <<Head(s)>> \o ReplaceFirst(Tail(s), ch, repl)

\* String.prototype.replace with a one-character global pattern: every
\* occurrence of ch is replaced, left to right, the replacement is not
\* rescanned
RECURSIVE ReplaceAll(_, _, _)
ReplaceAll(s, ch, repl) ==
    IF s = <<>> THEN <<>>
    ELSE (IF Head(s) = ch THEN repl ELSE <<Head(s)>>)
            \o ReplaceAll(Tail(s), ch, repl)

\* the five replacements, in the order of the source
Replacements ==
    << [ch |-> "<",  repl |-> <<"&", "l", "t", ";">>],
       [ch |-> ">",  repl |-> <<"&", "g", "t", ";">>],
       [ch |-> "\"", repl |-> <<"&", "q", "u", "o", "t", ";">>],
       [ch |-> "'",  repl |-> <<"&", "#", "x", "2", "7", ";">>],
       [ch |-> "/",  repl |-> <<"&", "#", "x", "2", "F", ";">>] >>

\* apply the replacements rs[order[1]], rs[order[2]], ... one after another
RECURSIVE ApplyInOrder(_, _, _)
ApplyInOrder(s, rs, order) ==
    IF order = <<>> THEN s
    ELSE ApplyInOrder(ReplaceAll(s, rs[Head(order)].ch, rs[Head(order)].repl),
                      rs, Tail(order))

SourceOrder == <<1, 2, 3, 4, 5>>

\* a sanitizer that escapes '&' as well, before the five characters
sanitizeStringAmp(input) ==
    ApplyInOrder(ReplaceAll(input, "&", <<"&", "a", "m", "p", ";">>),
                 Replacements, SourceOrder)

sanitizeString(input) == ApplyInOrder(input, Replacements, SourceOrder)

\* ---- inputs of the sanitizer ----
MaxSanLen == 3

SanAlphabet == {"<", ">", "\"", "'", "/", "&", ";", "a"}

SanExamples ==
    { <<"<","s","c","r","i","p","t",">","a","<","/","s","c","r","i","p","t",">">>,
      <<"&", "l", "t", ";">>,
      <<"&", "a", "m", "p", ";", "l", "t", ";">>,
      <<"&", "#", "x", "2", "F", ";", "/">> }

SanInputs == SeqsUpTo(SanAlphabet, MaxSanLen) \cup SanExamples

InitSanitize ==
    /\ pc = "start"
    /\ sanIn \in SanInputs
    /\ sanOut = <<>>
    /\ sanOut2 = <<>>
    /\ file = NoValue
    /\ fileResult = NoValue
    /\ ValIdle

\* sanitizeString(input)
Sanitize ==
    /\ pc = "start"
    /\ pc' = "once"
    /\ sanOut' = sanitizeString(sanIn)
    /\ UNCHANGED <<file, fileResult, sanIn, sanOut2, valVars>>

\* sanitizeString applied to its own output
SanitizeAgain ==
    /\ pc = "once"
    /\ pc' = "twice"
    /\ sanOut2' = sanitizeString(sanOut)
    /\ UNCHANGED <<file, fileResult, sanIn, sanOut, valVars>>

NextSanitize == Sanitize \/ SanitizeAgain

SpecSanitize == InitSanitize /\ [][NextSanitize]_vars

(***************************************************************************)
(* Schema validation: values                                               *)
(*                                                                         *)
(* A JavaScript value is a record [t, n2, s]: t is the type the schema     *)
(* library's getParsedType reports, n2 is twice the number (so that        *)
(* halves are representable; of a boolean, 0 or 1), s the characters of a  *)
(* string.  An object is a function from its keys to values.  vSchema is   *)
(* the name of the schema passed to validateInput, vFields the schema.     *)
(***************************************************************************)
Undef == [t |-> "undefined", n2 |-> 0, s |-> <<>>]

Null == [t |-> "null", n2 |-> 0, s |-> <<>>]

NaN == [t |-> "nan", n2 |-> 0, s |-> <<>>]

Bool(b) == [t |-> "boolean", n2 |-> IF b THEN 1 ELSE 0, s |-> <<>>]

\* the number h / 2
Half(h) == [t |-> "number", n2 |-> h, s |-> <<>>]

\* the integer k
Num(k) == Half(2 * k)

Str(chars) == [t |-> "string", n2 |-> 0, s |-> chars]

Digits == {"0", "1", "2", "3", "4", "5", "6", "7", "8", "9"}

HexDigits == Digits \cup {"a", "b", "c", "d", "e", "f", "A", "B", "C", "D", "E", "F"}

Letters ==
    {"a", "b", "c", "d", "e", "f", "g", "h", "i", "j", "k", "l", "m", "n", "o",
     "p", "q", "r", "s", "t", "u", "v", "w", "x", "y", "z",
     "A", "B", "C", "D", "E", "F", "G", "H", "I", "J", "K", "L", "M", "N", "O",
     "P", "Q", "R", "S", "T", "U", "V", "W", "X", "Y", "Z"}

DigitValue ==
    ("0" :> 0) @@ ("1" :> 1) @@ ("2" :> 2) @@ ("3" :> 3) @@ ("4" :> 4) @@
    ("5" :> 5) @@ ("6" :> 6) @@ ("7" :> 7) @@ ("8" :> 8) @@ ("9" :> 9)

\* String.prototype.trim, as Number() applies it to a string
RECURSIVE Trim(_)
Trim(s) ==
    IF s = <<>> THEN s
    ELSE IF Head(s) = " " THEN Trim(Tail(s))
    ELSE IF s[Len(s)] = " " THEN Trim(SubSeq(s, 1, Len(s) - 1))
    ELSE s

\* the value of a run of decimal digits
RECURSIVE DigitsValue(_)
DigitsValue(ds) ==
    IF ds = <<>> THEN 0
    ELSE 10 * DigitsValue(SubSeq(ds, 1, Len(ds) - 1)) + DigitValue[ds[Len(ds)]]

AllDigits(ds) == \A i \in 1..Len(ds) : ds[i] \in Digits

\* Number(string) for decimal literals: "" is 0, [+-]digits[.digits] is its
\* value, anything else is NaN.  A fraction that is not zero is kept as one
\* half: that keeps whether the number is an integer and how it compares
\* with every integer.
StringToNumber(str) ==
    LET tr == Trim(str)
        signed == tr # <<>> /\ Head(tr) \in {"-", "+"}
        body == IF signed THEN Tail(tr) ELSE tr
        dots == {i \in 1..Len(body) : body[i] = "."}
        dot == IF dots = {} THEN Len(body) + 1 ELSE CHOOSE i \in dots : TRUE
        ip == SubSeq(body, 1, dot - 1)
        fp == SubSeq(body, dot + 1, Len(body))
        mag == 2 * DigitsValue(ip) + (IF DigitsValue(fp) # 0 THEN 1 ELSE 0)
    IN  IF tr = <<>> THEN Num(0)
        ELSE IF /\ Cardinality(dots) <= 1
                /\ AllDigits(ip)
                /\ AllDigits(fp)
                /\ Len(ip) + Len(fp) >= 1
             THEN Half(IF signed /\ Head(tr) = "-" THEN 0 - mag ELSE mag)
        ELSE NaN

\* z.number() without coercion: the input as it is
NoCoercion(v) == v

\* Number(value), the coercion of z.coerce.number()
ToNumber(v) ==
    CASE v.t = "undefined" -> NaN
      [] v.t = "null"      -> Num(0)
      [] v.t = "boolean"   -> Half(2 * v.n2)
      [] v.t = "string"    -> StringToNumber(v.s)
      [] OTHER             -> v

(***************************************************************************)
(* Schema validation: string formats                                       *)
(***************************************************************************)
\* .uuid(): 8-4-4-4-12 hexadecimal digits
IsUuid(str) ==
    /\ Len(str) = 36
    /\ \A i \in 1..36 :
          IF i \in {9, 14, 19, 24} THEN str[i] = "-" ELSE str[i] \in HexDigits

\* the labels of a dotted name: the pieces between the "." characters
RECURSIVE SplitOn(_, _)
SplitOn(str, sep) ==
    LET at == {i \in 1..Len(str) : str[i] = sep}
    IN  IF at = {} THEN <<str>>
        ELSE LET i == CHOOSE k \in at : \A m \in at : k <= m
             IN  <<SubSeq(str, 1, i - 1)>> \o SplitOn(SubSeq(str, i + 1, Len(str)), sep)

AlphaNum == Letters \cup Digits

\* .email(): local part of letters, digits and _ ' + - . that neither starts
\* nor ends with "." nor holds "..", then "@", then dot-separated labels
\* ending in a top-level label of two or more letters
IsEmail(str) ==
    LET parts == SplitOn(str, "@")
        local == parts[1]
        labels == SplitOn(parts[2], ".")
    IN  /\ Len(parts) = 2
        /\ Len(local) >= 1
        /\ \A i \in 1..Len(local) : local[i] \in AlphaNum \cup {"_", "'", "+", "-", "."}
        /\ local[1] # "."
        /\ local[Len(local)] \notin {".", "'"}
        /\ ~HasPair(local, ".", ".")
        /\ Len(labels) >= 2
        /\ \A k \in 1..(Len(labels) - 1) :
              /\ Len(labels[k]) >= 1
              /\ labels[k][1] \in AlphaNum
              /\ \A i \in 1..Len(labels[k]) : labels[k][i] \in AlphaNum \cup {"-"}
        /\ Len(labels[Len(labels)]) >= 2
        /\ \A i \in 1..Len(labels[Len(labels)]) : labels[Len(labels)][i] \in Letters

\* .datetime(): YYYY-MM-DDTHH:MM:SS, an optional fraction, then "Z"
IsDatetime(str) ==
    /\ Len(str) >= 20
    /\ \A i \in 1..19 :
          CASE i \in {5, 8}   -> str[i] = "-"
            [] i = 11         -> str[i] = "T"
            [] i \in {14, 17} -> str[i] = ":"
            [] OTHER          -> str[i] \in Digits
    /\ str[Len(str)] = "Z"
    /\ Len(str) > 20 =>
          /\ str[20] = "."
          /\ Len(str) >= 22
          /\ \A i \in 21..(Len(str) - 1) : str[i] \in Digits

(***************************************************************************)
(* Schema registry                                                         *)
(*                                                                         *)
(* A field is [name, base, coerce, values, expected, checks, optional,     *)
(* hasDefault, default, errorMap]; a check is [kind, arg, inclusive, msg]; *)
(* an object schema is the sequence of its fields in declaration order.    *)
(***************************************************************************)
Check(kind, arg, inclusive, msg) ==
    [kind |-> kind, arg |-> arg, inclusive |-> inclusive, msg |-> msg]

Field(name, base, checks) ==
    [name |-> name, base |-> base, coerce |-> FALSE, values |-> <<>>,
     expected |-> base, checks |-> checks, optional |-> FALSE,
     hasDefault |-> FALSE, default |-> Undef, errorMap |-> ""]

\* .optional()
Optional(f) == [f EXCEPT !.optional = TRUE]

\* .default(value)
Default(f, value) == [f EXCEPT !.hasDefault = TRUE, !.default = value]

\* z.coerce.number() followed by the checks
CoerceNumber(name, checks) == [Field(name, "number", checks) EXCEPT !.coerce = TRUE]

\* z.enum(values) and z.literal(value); values in declaration order
Enum(name, values, expected, errorMap) ==
    [Field(name, "enum", <<>>) EXCEPT
        !.values = values, !.expected = expected, !.errorMap = errorMap]

Literal(name, value, errorMap) ==
    [Field(name, "literal", <<>>) EXCEPT
        !.values = <<value>>, !.expected = "literal", !.errorMap = errorMap]

Chars_pdf ==
    <<"a","p","p","l","i","c","a","t","i","o","n","/","p","d","f">>

Chars_draft == <<"d","r","a","f","t">>

Chars_reviewed == <<"r","e","v","i","e","w","e","d">>

Chars_sent == <<"s","e","n","t">>

Chars_monthly == <<"m","o","n","t","h","l","y">>

Chars_yearly == <<"y","e","a","r","l","y">>

StatusExpected == "'draft' | 'reviewed' | 'sent'"

uuidChecks == <<Check("uuid", 0, TRUE, "Invalid UUID format")>>

emailChecks == <<Check("email", 0, TRUE, "Invalid email format")>>

itemIdChecks ==
    <<Check("strmin", 1, TRUE, "Item ID is required"),
      Check("strmax", 100, TRUE, "Item ID too long")>>

statusField == Optional(Enum("status", <<Chars_draft, Chars_reviewed, Chars_sent>>,
                             StatusExpected, ""))

fileUploadSchema ==
    <<Literal("type", Chars_pdf, "Only PDF files are allowed"),
      Field("size", "number",
            <<Check("nummax", 50 * 1024 * 1024, TRUE, "File size must be less than 50MB")>>),
      Field("name", "string", <<Check("strmin", 1, TRUE, "File name is required")>>)>>

reportIdSchema == <<Field("id", "string", uuidChecks)>>

reportUpdateSchema ==
    <<Field("id", "string", uuidChecks),
      statusField,
      Optional(Field("notes", "string",
                     <<Check("strmax", 10000, TRUE, "Notes too long")>>))>>

noteSchema ==
    <<Field("reportId", "string", uuidChecks),
      Field("itemId", "string", itemIdChecks),
      Field("note", "string", <<Check("strmax", 5000, TRUE, "Note too long")>>)>>

verificationSchema ==
    <<Field("reportId", "string", uuidChecks),
      Field("itemId", "string", itemIdChecks),
      Field("verified", "boolean", <<>>)>>

checkoutSchema ==
    <<Enum("plan", <<Chars_monthly, Chars_yearly>>, "'monthly' | 'yearly'",
           "Invalid plan. Must be monthly or yearly.")>>

signupSchema ==
    <<Field("email", "string", emailChecks),
      Field("password", "string",
            <<Check("strmin", 8, TRUE, "Password must be at least 8 characters"),
              Check("strmax", 100, TRUE, "Password too long")>>),
      Optional(Field("fullName", "string",
                     <<Check("strmin", 1, TRUE, "Name is required"),
                       Check("strmax", 100, TRUE, "Name too long")>>)),
      Optional(Field("firmName", "string",
                     <<Check("strmax", 200, TRUE, "Firm name too long")>>))>>

loginSchema ==
    <<Field("email", "string", emailChecks),
      Field("password", "string",
            <<Check("strmin", 1, TRUE, "Password is required")>>)>>

profileUpdateSchema ==
    <<Optional(Field("fullName", "string",
                     <<Check("strmax", 100, TRUE, "Name too long")>>)),
      Optional(Field("firmName", "string",
                     <<Check("strmax", 200, TRUE, "Firm name too long")>>)),
      Optional(Field("phone", "string",
                     <<Check("strmax", 20, TRUE, "Phone number too long")>>))>>

paginationSchema ==
    <<Default(CoerceNumber("page",
                <<Check("int", 0, TRUE, "Expected integer, received float"),
                  Check("nummin", 0, FALSE, "Number must be greater than 0")>>),
              Num(1)),
      Default(CoerceNumber("limit",
                <<Check("int", 0, TRUE, "Expected integer, received float"),
                  Check("nummin", 1, TRUE, "Number must be greater than or equal to 1"),
                  Check("nummax", 100, TRUE, "Number must be less than or equal to 100")>>),
              Num(20))>>

\* a.merge(b): the fields of a that b does not redeclare, then the fields of b
Merge(a, b) ==
    SelectSeq(a, LAMBDA f : \A i \in 1..Len(b) : b[i].name # f.name) \o b

reportFilterSchema ==
    Merge(<<statusField,
            Optional(Field("search", "string",
                <<Check("strmax", 200, TRUE,
                        "String must contain at most 200 character(s)")>>)),
            Optional(Field("startDate", "string",
                <<Check("datetime", 0, TRUE, "Invalid datetime")>>)),
            Optional(Field("endDate", "string",
                <<Check("datetime", 0, TRUE, "Invalid datetime")>>))>>,
          paginationSchema)

SchemaNames ==
    {"fileUpload", "reportId", "reportUpdate", "note", "verification",
     "checkout", "signup", "login", "profileUpdate", "pagination", "reportFilter"}

SchemaOf(name) ==
    CASE name = "fileUpload"    -> fileUploadSchema
      [] name = "reportId"      -> reportIdSchema
      [] name = "reportUpdate"  -> reportUpdateSchema
      [] name = "note"          -> noteSchema
      [] name = "verification"  -> verificationSchema
      [] name = "checkout"      -> checkoutSchema
      [] name = "signup"        -> signupSchema
      [] name = "login"         -> loginSchema
      [] name = "profileUpdate" -> profileUpdateSchema
      [] name = "pagination"    -> paginationSchema
      [] name = "reportFilter"  -> reportFilterSchema

(***************************************************************************)
(* Validation engine: schema.safeParse(data) and validateInput             *)
(***************************************************************************)
\* the characters of a string as one string
RECURSIVE Flatten(_)
Flatten(chars) ==
    IF chars = <<>> THEN "" ELSE Head(chars) \o Flatten(Tail(chars))

\* the checks with a minimum length check that is off by one
CheckViolatedOffByOne(c, v) ==
    CASE c.kind = "strmin"   -> Len(v.s) < c.arg - 1
      [] c.kind = "strmax"   -> Len(v.s) > c.arg
      [] c.kind = "uuid"     -> ~IsUuid(v.s)
      [] c.kind = "email"    -> ~IsEmail(v.s)
      [] c.kind = "datetime" -> ~IsDatetime(v.s)
      [] c.kind = "int"      -> v.n2 % 2 # 0
      [] c.kind = "nummin"   -> IF c.inclusive THEN v.n2 < 2 * c.arg
                                ELSE v.n2 <= 2 * c.arg
      [] c.kind = "nummax"   -> IF c.inclusive THEN v.n2 > 2 * c.arg
                                ELSE v.n2 >= 2 * c.arg

\* whether value v (of the type the check applies to) violates check c
CheckViolated(c, v) ==
    CASE c.kind = "strmin"   -> Len(v.s) < c.arg
      [] c.kind = "strmax"   -> Len(v.s) > c.arg
      [] c.kind = "uuid"     -> ~IsUuid(v.s)
      [] c.kind = "email"    -> ~IsEmail(v.s)
      [] c.kind = "datetime" -> ~IsDatetime(v.s)
      [] c.kind = "int"      -> v.n2 % 2 # 0
      [] c.kind = "nummin"   -> IF c.inclusive THEN v.n2 < 2 * c.arg
                                ELSE v.n2 <= 2 * c.arg
      [] c.kind = "nummax"   -> IF c.inclusive THEN v.n2 > 2 * c.arg
                                ELSE v.n2 >= 2 * c.arg

\* the checks of a field run in order; the first violated check ends the run
RECURSIVE CheckIssuesFirstOnly(_, _)
CheckIssuesFirstOnly(checks, v) ==
    IF checks = <<>> THEN <<>>
    ELSE IF CheckViolated(Head(checks), v) THEN <<Head(checks).msg>>
    ELSE CheckIssuesFirstOnly(Tail(checks), v)

\* the checks of a field run in order; each violated check adds its message
RECURSIVE CheckIssues(_, _)
CheckIssues(checks, v) ==
    IF checks = <<>> THEN <<>>
    ELSE (IF CheckViolated(Head(checks), v) THEN <<Head(checks).msg>> ELSE <<>>)
            \o CheckIssues(Tail(checks), v)

\* the message of an invalid_type issue: the field's errorMap if it has one,
\* else the library's default wording
TypeMessage(f, received) ==
    IF f.errorMap # "" THEN f.errorMap
    ELSE IF received = "undefined" THEN "Required"
    ELSE "Expected " \o f.expected \o ", received " \o received

\* the message of an invalid_enum_value or invalid_literal issue
ValueMessage(f, v) ==
    IF f.errorMap # "" THEN f.errorMap
    ELSE IF f.base = "enum"
         THEN "Invalid enum value. Expected " \o f.expected
                \o ", received '" \o Flatten(v.s) \o "'"
    ELSE "Invalid literal value, expected " \o Flatten(f.values[1])

Invalid(msg) == [ok |-> FALSE, value |-> Undef, msgs |-> <<msg>>]

Checked(f, v) ==
    LET msgs == CheckIssues(f.checks, v)
    IN  [ok |-> msgs = <<>>, value |-> v, msgs |-> msgs]

\* the field's own type: ZodString, ZodNumber, ZodEnum, ZodLiteral, ZodBoolean
ParseInner(f, v) ==
    CASE f.base = "string" ->
            IF v.t # "string" THEN Invalid(TypeMessage(f, v.t)) ELSE Checked(f, v)
      [] f.base = "number" ->
            LET d == IF f.coerce THEN ToNumber(v) ELSE v
            IN  IF d.t # "number" THEN Invalid(TypeMessage(f, d.t)) ELSE Checked(f, d)
      [] f.base = "enum" ->
            IF v.t # "string" THEN Invalid(TypeMessage(f, v.t))
            ELSE IF \A i \in 1..Len(f.values) : f.values[i] # v.s
                 THEN Invalid(ValueMessage(f, v))
            ELSE [ok |-> TRUE, value |-> v, msgs |-> <<>>]
      [] f.base = "literal" ->
            IF v # Str(f.values[1]) THEN Invalid(ValueMessage(f, v))
            ELSE [ok |-> TRUE, value |-> v, msgs |-> <<>>]
      [] f.base = "boolean" ->
            IF v.t # "boolean" THEN Invalid(TypeMessage(f, v.t))
            ELSE [ok |-> TRUE, value |-> v, msgs |-> <<>>]

\* an optional field that yields null where the input has no value
AbsentAsNull == Null

\* what an optional field yields where the input has no value
OptionalAbsent == Undef

\* ZodDefault and ZodOptional around the field's own type
ParseField(f, v) ==
    IF f.hasDefault
    THEN ParseInner(f, IF v.t = "undefined" THEN f.default ELSE v)
    ELSE IF f.optional /\ v.t = "undefined"
    THEN [ok |-> TRUE, value |-> OptionalAbsent, msgs |-> <<>>]
    ELSE ParseInner(f, v)

\* obj[key], undefined when the object has no such key
Get(obj, key) == IF key \in DOMAIN obj THEN obj[key] ELSE Undef

FieldNames(fields) == {fields[i].name : i \in 1..Len(fields)}

\* the messages of one field as issues [path, message]
FieldIssues(name, msgs) ==
    [i \in 1..Len(msgs) |-> [path |-> <<name>>, message |-> msgs[i]]]

\* parsing that stops at the first field with an issue
RECURSIVE ObjectIssuesAbortEarly(_, _)
ObjectIssuesAbortEarly(fields, obj) ==
    IF fields = <<>> THEN <<>>
    ELSE IF ParseField(Head(fields), Get(obj, Head(fields).name)).msgs # <<>>
    THEN FieldIssues(Head(fields).name,
                     ParseField(Head(fields), Get(obj, Head(fields).name)).msgs)
    ELSE ObjectIssuesAbortEarly(Tail(fields), obj)

\* the issues of the fields, by field in declaration order
RECURSIVE ObjectIssues(_, _)
ObjectIssues(fields, obj) ==
    IF fields = <<>> THEN <<>>
    ELSE FieldIssues(Head(fields).name,
                     ParseField(Head(fields), Get(obj, Head(fields).name)).msgs)
            \o ObjectIssues(Tail(fields), obj)

\* unknownKeys "passthrough": the undeclared keys of the input are kept
OutputKeysPassthrough(fields, obj) ==
    {k \in FieldNames(fields) :
        k \in DOMAIN obj
        \/ \E i \in 1..Len(fields) :
              /\ fields[i].name = k
              /\ ParseField(fields[i], Get(obj, k)).value.t # "undefined"}
    \cup DOMAIN obj

\* unknownKeys "strip": a declared key is set in the output when the input
\* has it or its parsed value is not undefined; no other key is set
OutputKeys(fields, obj) ==
    {k \in FieldNames(fields) :
        k \in DOMAIN obj
        \/ \E i \in 1..Len(fields) :
              /\ fields[i].name = k
              /\ ParseField(fields[i], Get(obj, k)).value.t # "undefined"}

ObjectData(fields, obj) ==
    [k \in OutputKeys(fields, obj) |->
        IF k \in FieldNames(fields)
        THEN LET i == CHOOSE j \in 1..Len(fields) : fields[j].name = k
             IN  ParseField(fields[i], Get(obj, k)).value
        ELSE obj[k]]

\* the result of parsing an object, given the issues of its fields
ObjectResult(fields, obj, issues) ==
    IF issues = <<>>
    THEN [success |-> TRUE, data |-> ObjectData(fields, obj), issues |-> <<>>]
    ELSE [success |-> FALSE, data |-> <<>>, issues |-> issues]

\* schema.safeParse(data) of an object schema; raw is [kind, obj]
safeParse(fields, raw) ==
    IF raw.kind # "object"
    THEN [success |-> FALSE, data |-> <<>>,
          issues |-> <<[path |-> <<>>,
                        message |-> IF raw.kind = "undefined" THEN "Required"
                                    ELSE "Expected object, received " \o raw.kind]>>]
    ELSE ObjectResult(fields, raw.obj, ObjectIssues(fields, raw.obj))

\* Array.prototype.join
RECURSIVE Join(_, _)
Join(strs, sep) ==
    IF strs = <<>> THEN ""
    ELSE IF Len(strs) = 1 THEN strs[1]
    ELSE strs[1] \o sep \o Join(Tail(strs), sep)

\* result.error.errors.map(e => `${e.path.join('.')}: ${e.message}`)
FormatErrors(issues) ==
    [i \in 1..Len(issues) |-> Join(issues[i].path, ".") \o ": " \o issues[i].message]

\* errors.join(', ') and the failure returned
Failure(errors) ==
    [success |-> FALSE, data |-> <<>>, errors |-> errors, error |-> Join(errors, ", ")]

\* what validateInput returns for a result of safeParse
ResultOf(result) ==
    IF result.success
    THEN [success |-> TRUE, data |-> result.data, errors |-> <<>>, error |-> ""]
    ELSE Failure(FormatErrors(result.issues))

\* validateInput(schema, data): [success, data, errors, error]; errors is the
\* local array the error string is joined from
validateInput(fields, raw) == ResultOf(safeParse(fields, raw))

(***************************************************************************)
(* Inputs of the validation engine                                         *)
(***************************************************************************)
\* how many undeclared keys an input object may carry
MaxExtraKeys == 1

ExtraKeyNames == <<"isAdmin", "role", "debug", "owner">>

Chars_uuid ==
    <<"1","2","3","e","4","5","6","7","-","e","8","9","b","-","1","2","d","3","-","a","4","5","6","-","4","2","6","6","1","4","1","7","4","0","0","0">>

Chars_notUuid == <<"n","o","t","-","a","-","u","u","i","d">>

Chars_email == <<"u","s","e","r","@","e","x","a","m","p","l","e",".","c","o","m">>

Chars_notEmail == <<"n","o","t","-","a","n","-","e","m","a","i","l">>

Chars_datetime == <<"2","0","2","4","-","0","1","-","1","5","T","1","0",":","3","0",":","0","0","Z">>

Chars_date == <<"2","0","2","4","-","0","1","-","1","5">>

Chars_bogus == <<"b","o","g","u","s">>

Chars_png == <<"i","m","a","g","e","/","p","n","g">>

\* marks a key the input object does not have
Absent == [t |-> "absent", n2 |-> 0, s |-> <<>>]

HasCheck(f, kind) == \E i \in 1..Len(f.checks) : f.checks[i].kind = kind

\* the lengths at and around the length limits of a string field
BoundaryLengths(f) ==
    {0} \cup UNION {IF f.checks[i].kind = "strmin"
                       THEN {f.checks[i].arg - 1, f.checks[i].arg}
                    ELSE IF f.checks[i].kind = "strmax"
                       THEN {f.checks[i].arg, f.checks[i].arg + 1}
                    ELSE {} : i \in 1..Len(f.checks)}

NumberPool(wide) ==
    {Null, Num(3), Num(0), Half(0 - 1), Num(100), Num(101),
     Str(<<"3">>), Str(<<"a", "b", "c">>)}
    \cup (IF wide
          THEN {Half(5), Bool(TRUE), Str(<<>>), Str(<<"2", ".", "5">>),
                Str(<<" ", "2", "0", " ">>), Str(<<"1", "0", "1">>), NaN}
          ELSE {})

\* the values tried for a field that the input supplies
Pool(f, wide) ==
    (CASE f.base = "string" /\ HasCheck(f, "uuid") ->
            {Str(<<>>), Str(Chars_uuid), Str(Chars_notUuid)}
       [] f.base = "string" /\ HasCheck(f, "email") ->
            {Str(<<>>), Str(Chars_email), Str(Chars_notEmail)}
       [] f.base = "string" /\ HasCheck(f, "datetime") ->
            {Str(Chars_datetime), Str(Chars_date)}
       [] f.base = "string" /\ ~HasCheck(f, "uuid") /\ ~HasCheck(f, "email")
                            /\ ~HasCheck(f, "datetime") ->
            {Str(Rep("a", n)) : n \in BoundaryLengths(f)}
       [] f.base = "number" /\ f.coerce -> NumberPool(wide)
       [] f.base = "number" /\ ~f.coerce ->
            {Num(10), Num(50 * 1024 * 1024), Num(50 * 1024 * 1024 + 1),
             Half(21), Str(<<"1", "0">>)}
       [] f.base = "enum" -> {Str(f.values[1]), Str(Chars_bogus), Str(<<>>)}
       [] f.base = "literal" -> {Str(f.values[1]), Str(Chars_png), Str(<<>>)}
       [] f.base = "boolean" -> {Bool(TRUE), Bool(FALSE), Str(<<"t", "r", "u", "e">>)})
    \cup (IF wide /\ f.base \notin {"number"} THEN {Num(5)} ELSE {})
    \cup (IF wide /\ (f.optional \/ f.hasDefault) THEN {Undef} ELSE {})

\* the objects that give each field a value of its pool, or lack the key
RECURSIVE Objects(_, _)
Objects(fields, wide) ==
    IF fields = <<>> THEN {[k \in {} |-> Undef]}
    ELSE {IF v = Absent THEN o ELSE (Head(fields).name :> v) @@ o :
            v \in Pool(Head(fields), wide) \cup {Absent},
            o \in Objects(Tail(fields), wide)}

\* the first n undeclared keys, each with a string value
Extras(n) == [k \in {ExtraKeyNames[i] : i \in 1..n} |-> Str(<<"x">>)]

Object(obj) == [kind |-> "object", obj |-> obj]

\* the raw inputs tried against a schema
Inputs(name) ==
    {Object(o @@ Extras(n)) :
        o \in Objects(SchemaOf(name), name # "reportFilter"),
        n \in 0..MaxExtraKeys}
    \cup {[kind |-> "null", obj |-> [k \in {} |-> Undef]],
          [kind |-> "undefined", obj |-> [k \in {} |-> Undef]]}

(***************************************************************************)
(* Validation engine: the specification                                    *)
(***************************************************************************)
InitValidate ==
    /\ pc = "start"
    /\ vSchema \in SchemaNames
    /\ vFields = SchemaOf(vSchema)
    /\ vInput \in Inputs(vSchema)
    /\ vResult = NoValue
    /\ vResult2 = NoValue
    /\ file = NoValue
    /\ fileResult = NoValue
    /\ sanIn = <<>>
    /\ sanOut = <<>>
    /\ sanOut2 = <<>>

\* the caller keeps what validateInput returned: the result of the call on
\* the raw input in vResult, the result of the call on a success's data in
\* vResult2
Return(r) ==
    IF pc = "start"
    THEN pc' = "done" /\ vResult' = r /\ UNCHANGED vResult2
    ELSE pc' = "redone" /\ vResult2' = r /\ UNCHANGED vResult

\* validateInput(schema, data): first on the raw input, then, after a
\* success, on the data it returned
ValidateInput ==
    /\ pc \in {"start", "done"}
    /\ pc = "done" => vResult.success
    /\ Return(validateInput(vFields,
                            IF pc = "start" THEN vInput ELSE Object(vResult.data)))
    /\ UNCHANGED <<vSchema, vFields, vInput, file, fileResult, sanIn, sanOut, sanOut2>>

NextValidate == ValidateInput

SpecValidate == InitValidate /\ [][NextValidate]_vars

(***************************************************************************)
(* Properties of the file upload guard                                     *)
(***************************************************************************)
FiftyMiB == 50 * 1024 * 1024

\* the file name is one the fourth check of the guard forbids
ForbiddenName(name) ==
    \/ \E i \in 1..(Len(name) - 1) : name[i] = "." /\ name[i + 1] = "."
    \/ \E i \in 1..Len(name) :
          name[i] \in {"<", ">", ":", "\"", "|", "?", "*", "NUL"}
    \/ (name # <<>> /\ Head(name) = ".")

BadName(name) == Len(name) = 0 \/ Len(name) > 255 \/ ForbiddenName(name)

\* C1: validateFileUpload reports exactly one error, that of the first
\* failing check in the order type, size, name: a non-PDF type gives
\* 'Only PDF files are allowed' whatever the size and name, a PDF over
\* 50 MiB gives 'File size must be less than 50MB' whatever the name, and
\* 'Invalid file name' is reported only when type and size pass.
C1_FirstFailingCheck ==
    pc = "done" =>
        /\ fileResult.valid = ~fileResult.hasError
        /\ file.type # "application/pdf" =>
              fileResult = [valid |-> FALSE, hasError |-> TRUE,
                            error |-> "Only PDF files are allowed"]
        /\ (file.type = "application/pdf" /\ file.size > FiftyMiB) =>
              fileResult = [valid |-> FALSE, hasError |-> TRUE,
                            error |-> "File size must be less than 50MB"]
        /\ (fileResult.hasError /\ fileResult.error = "Invalid file name") <=>
              (/\ file.type = "application/pdf"
               /\ file.size <= FiftyMiB
               /\ BadName(file.name))

\* a descriptor failing all three kinds of check is rejected for its type
C1_Witness ==
    /\ pc = "done"
    /\ file.type # "application/pdf"
    /\ file.size > FiftyMiB
    /\ BadName(file.name)
    /\ fileResult.error = "Only PDF files are allowed"

\* C2: validateFileUpload returns valid=true with no error exactly when the
\* type is 'application/pdf', the size is at most 50 MiB, the name has 1 to
\* 255 characters and matches no forbidden pattern; otherwise it returns
\* valid=false with an error.
C2_ValidIff ==
    pc = "done" =>
        LET good == /\ file.type = "application/pdf"
                    /\ file.size <= FiftyMiB
                    /\ Len(file.name) >= 1
                    /\ Len(file.name) <= 255
                    /\ ~ForbiddenName(file.name)
        IN  /\ good => (fileResult.valid /\ ~fileResult.hasError)
            /\ ~good => (~fileResult.valid /\ fileResult.hasError
                          /\ fileResult.error # "")

\* a PDF of exactly 50 MiB with a name of exactly 255 characters is accepted
C2_Witness ==
    /\ pc = "done"
    /\ file.size = FiftyMiB
    /\ Len(file.name) = 255
    /\ fileResult.valid
    /\ ~fileResult.hasError

(***************************************************************************)
(* Properties of the string sanitizer                                      *)
(***************************************************************************)
EscapedChars == {"<", ">", "\"", "'", "/"}

\* the entity reference of one character, the character itself if it has none
EntityOf(c) ==
    CASE c = "<"  -> <<"&", "l", "t", ";">>
      [] c = ">"  -> <<"&", "g", "t", ";">>
      [] c = "\"" -> <<"&", "q", "u", "o", "t", ";">>
      [] c = "'"  -> <<"&", "#", "x", "2", "7", ";">>
      [] c = "/"  -> <<"&", "#", "x", "2", "F", ";">>
      [] OTHER    -> <<c>>

\* every character replaced in place by its entity reference
RECURSIVE EscapeEach(_)
EscapeEach(s) ==
    IF s = <<>> THEN <<>> ELSE EntityOf(Head(s)) \o EscapeEach(Tail(s))

\* the orders in which the five replacements can be applied
ReplacementOrders ==
    {o \in [1..5 -> 1..5] : \A i, j \in 1..5 : i # j => o[i] # o[j]}

ScriptExample ==
    <<"<","s","c","r","i","p","t",">","a","<","/","s","c","r","i","p","t",">">>

ScriptEscaped ==
    <<"&","l","t",";","s","c","r","i","p","t","&","g","t",";","a",
      "&","l","t",";","&","#","x","2","F",";","s","c","r","i","p","t",
      "&","g","t",";">>

\* C6: sanitizeString replaces each of < > " ' / by its entity reference and
\* leaves every other character, '&' included, unchanged and in place; the
\* output holds none of the five characters, and every order of the five
\* replacements gives the same result.
C6_EscapesEachChar ==
    pc \in {"once", "twice"} =>
        /\ sanOut = EscapeEach(sanIn)
        /\ \A i \in 1..Len(sanOut) : sanOut[i] \notin EscapedChars
        /\ \A o \in ReplacementOrders :
              ApplyInOrder(sanIn, Replacements, o) = sanOut
        /\ sanIn = ScriptExample => sanOut = ScriptEscaped

\* the example of the specification, sanitized
C6_Witness ==
    /\ pc = "once"
    /\ sanIn = ScriptExample
    /\ sanOut = ScriptEscaped

\* C5 (as amended): sanitizeString is idempotent: its output holds none of
\* the five escaped characters and '&' is left alone, so sanitizing an
\* already sanitized (or already escaped) string changes nothing.
C5_Idempotent ==
    pc = "twice" => sanOut2 = sanOut

\* an input that holds an entity reference and a character to escape has
\* been sanitized twice
C5_Witness ==
    /\ pc = "twice"
    /\ sanIn = <<"&", "#", "x", "2", "F", ";", "/">>
    /\ sanOut # sanIn
    /\ sanOut2 = sanOut

\* C5 (as stated): there is an input x for which
\* sanitizeString(sanitizeString(x)) differs from sanitizeString(x).
C5_NotIdempotent ==
    pc = "twice" =>
        \E x \in SanInputs :
            sanitizeString(sanitizeString(x)) # sanitizeString(x)

(***************************************************************************)
(* Properties of the validation engine                                     *)
(***************************************************************************)
TheSchema == SchemaOf(vSchema)

\* the value the checks of field f see: the default where the input has no
\* value, the coerced number where the field coerces
Effective(f, obj) ==
    LET raw == Get(obj, f.name)
        given == IF f.hasDefault /\ raw.t = "undefined" THEN f.default ELSE raw
    IN  IF f.base = "number" /\ f.coerce THEN ToNumber(given) ELSE given

\* an optional field without a value is not looked at
Skipped(f, obj) ==
    f.optional /\ ~f.hasDefault /\ Get(obj, f.name).t = "undefined"

\* the value has the type (for an enum or a literal: is a value) of the field
TypeOk(f, v) ==
    CASE f.base = "string"  -> v.t = "string"
      [] f.base = "number"  -> v.t = "number"
      [] f.base = "boolean" -> v.t = "boolean"
      [] f.base = "enum"    -> v.t = "string" /\ \E i \in 1..Len(f.values) : f.values[i] = v.s
      [] f.base = "literal" -> v.t = "string" /\ v.s = f.values[1]

\* the violated constraints of an input, as <<field index, constraint index>>;
\* constraint 0 of a field is its type, constraint j >= 1 its j-th check,
\* which applies to values of the field's type only
ViolatedConstraints(fields, obj) ==
    {<<i, 0>> : i \in {k \in 1..Len(fields) :
                        ~Skipped(fields[k], obj)
                        /\ ~TypeOk(fields[k], Effective(fields[k], obj))}}
    \cup
    UNION {{<<i, j>> : j \in {m \in 1..Len(fields[i].checks) :
                                /\ ~Skipped(fields[i], obj)
                                /\ TypeOk(fields[i], Effective(fields[i], obj))
                                /\ CheckViolated(fields[i].checks[m],
                                                 Effective(fields[i], obj))}} :
           i \in 1..Len(fields)}

Before(p, q) == p[1] < q[1] \/ (p[1] = q[1] /\ p[2] < q[2])

\* the text of the entry of a violated constraint
EntryOf(fields, obj, p) ==
    LET f == fields[p[1]]
        v == Effective(f, obj)
    IN  f.name \o ": " \o
        (IF p[2] >= 1 THEN f.checks[p[2]].msg
         ELSE IF v.t = f.expected \/ (f.base \in {"enum", "literal"} /\ v.t = "string")
              THEN ValueMessage(f, v)
         ELSE TypeMessage(f, v.t))

\* the entries separated by ", "
RECURSIVE CommaSeparated(_, _)
CommaSeparated(entries, n) ==
    IF n = 0 THEN ""
    ELSE IF n = 1 THEN entries[1]
    ELSE CommaSeparated(entries, n - 1) \o ", " \o entries[n]

\* C3: when validateInput fails, its error lists every violated constraint
\* of every field, each as '<field path>: <message>', joined by ', ', in the
\* schema's field declaration order, one entry per violated constraint.
C3_AllViolationsInOrder ==
    (pc = "done" /\ ~vResult.success /\ vInput.kind = "object") =>
        LET viol == ViolatedConstraints(TheSchema, vInput.obj)
            rank(p) == Cardinality({q \in viol : Before(q, p)}) + 1
        IN  /\ Len(vResult.errors) = Cardinality(viol)
            /\ \A p \in viol :
                  vResult.errors[rank(p)] = EntryOf(TheSchema, vInput.obj, p)
            /\ vResult.error = CommaSeparated(vResult.errors, Len(vResult.errors))

\* two fields are in violation, the second of them of two constraints at once
C3_Witness ==
    /\ pc = "done"
    /\ vSchema = "reportFilter"
    /\ ~vResult.success
    /\ Len(vResult.errors) = 3
    /\ vResult.errors[1] = "search: String must contain at most 200 character(s)"
    /\ vResult.errors[2] = "page: Expected integer, received float"
    /\ vResult.errors[3] = "page: Number must be greater than 0"

\* the required fields of a schema that the input lacks
MissingRequired(fields, obj) ==
    {i \in 1..Len(fields) :
        /\ ~fields[i].optional
        /\ ~fields[i].hasDefault
        /\ fields[i].name \notin DOMAIN obj}

Contains(entries, e) == \E k \in 1..Len(entries) : entries[k] = e

\* C4 (as stated): for every input that omits required fields, the failure
\* message contains '<field>: Required' (the engine's required-field
\* wording) for every missing required field.
C4_RequiredForEveryMissing ==
    (pc = "done" /\ vInput.kind = "object") =>
        \A i \in MissingRequired(TheSchema, vInput.obj) :
            /\ ~vResult.success
            /\ Contains(vResult.errors, TheSchema[i].name \o ": Required")

\* what the entry of a missing required field says
MissingWording(schema, field) ==
    IF schema = "checkout" /\ field = "plan"
        THEN "Invalid plan. Must be monthly or yearly."
    ELSE IF schema = "fileUpload" /\ field = "type"
        THEN "Only PDF files are allowed"
    ELSE "Required"

\* C4 (as amended): for every input that omits required fields, validateInput
\* fails and its message has an entry for every missing required field, not
\* just the first: '<field>: Required', except that checkout's plan and the
\* upload schema's type, which declare an error map, are reported with the
\* error map's message.
C4_EntryForEveryMissing ==
    (pc = "done" /\ vInput.kind = "object") =>
        \A i \in MissingRequired(TheSchema, vInput.obj) :
            /\ ~vResult.success
            /\ Contains(vResult.errors,
                        TheSchema[i].name \o ": "
                            \o MissingWording(vSchema, TheSchema[i].name))
            /\ vResult.error = CommaSeparated(vResult.errors, Len(vResult.errors))

\* signup without email and without password reports both
C4_Witness ==
    /\ pc = "done"
    /\ vSchema = "signup"
    /\ vInput.kind = "object"
    /\ Cardinality(MissingRequired(TheSchema, vInput.obj)) = 2
    /\ vResult.error = "email: Required, password: Required"

IsPaginated == vSchema \in {"pagination", "reportFilter"}

IntegerFrom(lo, hi, v) ==
    v.t = "number" /\ v.n2 % 2 = 0 /\ v.n2 >= 2 * lo /\ v.n2 <= 2 * hi

\* C7: against the pagination fields an absent page becomes 1 and an absent
\* limit 20, a string holding an integer numeral is coerced to that integer,
\* every success has an integer page >= 1 and an integer limit in 1..100, and
\* a page that is < 1 or no integer, or a limit that is < 1, > 100 or no
\* integer, fails.
C7_Pagination ==
    (pc = "done" /\ IsPaginated /\ vInput.kind = "object") =>
        LET obj == vInput.obj
            page == Get(obj, "page")
            limit == Get(obj, "limit")
            data == vResult.data
        IN  /\ vResult.success =>
                /\ data["page"].t = "number" /\ data["page"].n2 % 2 = 0
                /\ data["page"].n2 >= 2
                /\ IntegerFrom(1, 100, data["limit"])
                /\ "page" \notin DOMAIN obj => data["page"] = Num(1)
                /\ "limit" \notin DOMAIN obj => data["limit"] = Num(20)
                /\ page = Str(<<"3">>) => data["page"] = Num(3)
                /\ limit = Str(<<" ", "2", "0", " ">>) => data["limit"] = Num(20)
            /\ (page.t = "number" /\ (page.n2 < 2 \/ page.n2 % 2 # 0)) => ~vResult.success
            /\ (limit.t = "number" /\ ~IntegerFrom(1, 100, limit)) => ~vResult.success
            /\ limit = Str(<<"1", "0", "1">>) => ~vResult.success
            /\ (vSchema = "pagination" /\ DOMAIN obj \cap {"page", "limit"} = {}) =>
                  (vResult.success /\ data = [page |-> Num(1), limit |-> Num(20)])
            /\ (vSchema = "pagination" /\ page \in {Str(<<"3">>), Num(3)}
                    /\ "limit" \notin DOMAIN obj) =>
                  (vResult.success /\ data = [page |-> Num(3), limit |-> Num(20)])
            /\ limit = Num(101) => ~vResult.success

\* {page: "3"} has been validated to {page: 3, limit: 20}
C7_Witness ==
    /\ pc = "done"
    /\ vSchema = "pagination"
    /\ vInput = Object([page |-> Str(<<"3">>)])
    /\ vResult.success
    /\ vResult.data = [page |-> Num(3), limit |-> Num(20)]

\* C8: the data of a success holds only fields the schema declares (unknown
\* input fields are dropped, not rejected, not copied), and every defaulted
\* field the input omitted is present with its default.
C8_StripAndDefault ==
    (pc = "done" /\ vInput.kind = "object") =>
        /\ (DOMAIN vInput.obj \subseteq FieldNames(TheSchema) \cup {"isAdmin", "role"}
                /\ ViolatedConstraints(TheSchema, vInput.obj) = {})
              => vResult.success
        /\ vResult.success =>
              /\ DOMAIN vResult.data \subseteq FieldNames(TheSchema)
              /\ IsPaginated =>
                    /\ Get(vInput.obj, "page").t = "undefined" =>
                          ("page" \in DOMAIN vResult.data /\ vResult.data["page"] = Num(1))
                    /\ Get(vInput.obj, "limit").t = "undefined" =>
                          ("limit" \in DOMAIN vResult.data
                           /\ vResult.data["limit"] = Num(20))

\* a report filter with an unknown field and no page has been accepted
C8_Witness ==
    /\ pc = "done"
    /\ vSchema = "reportFilter"
    /\ vInput.kind = "object"
    /\ "isAdmin" \in DOMAIN vInput.obj
    /\ "page" \notin DOMAIN vInput.obj
    /\ "status" \in DOMAIN vInput.obj
    /\ vResult.success
    /\ DOMAIN vResult.data = {"status", "page", "limit"}

\* C9: validating the data of a success against the same schema succeeds
\* again and returns equal data.
C9_RoundTrip ==
    pc = "redone" => (vResult2.success /\ vResult2.data = vResult.data)

\* a report filter with a coerced page, a defaulted limit and absent
\* optional fields has been validated twice
C9_Witness ==
    /\ pc = "redone"
    /\ vSchema = "reportFilter"
    /\ vInput.kind = "object"
    /\ Get(vInput.obj, "page") = Str(<<"3">>)
    /\ DOMAIN vInput.obj = {"page", "isAdmin"}
    /\ vResult2.success
    /\ vResult.data # vInput.obj

\* the required string fields of a schema
RequiredStrings(fields) ==
    {i \in 1..Len(fields) :
        fields[i].base = "string" /\ ~fields[i].optional /\ ~fields[i].hasDefault}

\* the entries field f can have in an error
EntriesOf(f) ==
    {f.name \o ": " \o m :
        m \in {f.checks[j].msg : j \in 1..Len(f.checks)} \cup {"Required"}}

\* an absent optional string field has no entry in the error
AbsentOptionalIsNoError ==
    \A i \in 1..Len(TheSchema) :
        (TheSchema[i].base = "string" /\ TheSchema[i].optional
            /\ TheSchema[i].name \notin DOMAIN vInput.obj) =>
        \A k \in 1..Len(vResult.errors) : vResult.errors[k] \notin EntriesOf(TheSchema[i])

\* C10 (as stated): a required string field rejects the empty string in
\* every schema, and an absent optional string field is not an error.
C10_RequiredRejectsEmpty ==
    (pc = "done" /\ vInput.kind = "object") =>
        /\ \A i \in RequiredStrings(TheSchema) :
              Get(vInput.obj, TheSchema[i].name) = Str(<<>>) => ~vResult.success
        /\ AbsentOptionalIsNoError

\* C10 (as amended): a required string field with a format or a minimum
\* length rejects the empty string (id, reportId, itemId, email, password,
\* the upload schema's name); the note schema's note, which has a maximum
\* length only, accepts it; an absent optional string field is not an error.
C10_ConstrainedRejectsEmpty ==
    (pc = "done" /\ vInput.kind = "object") =>
        /\ \A i \in RequiredStrings(TheSchema) :
              Get(vInput.obj, TheSchema[i].name) = Str(<<>>) =>
                IF vSchema = "note" /\ TheSchema[i].name = "note"
                THEN \A k \in 1..Len(vResult.errors) :
                        vResult.errors[k] \notin EntriesOf(TheSchema[i])
                ELSE ~vResult.success
        /\ (vSchema = "note" /\ vResult.success) =>
                Get(vInput.obj, "itemId") # Str(<<>>)
        /\ AbsentOptionalIsNoError

\* a note whose item id and text are both the empty string has been rejected
\* for the item id alone
C10_Witness ==
    /\ pc = "done"
    /\ vSchema = "note"
    /\ vInput.kind = "object"
    /\ Get(vInput.obj, "itemId") = Str(<<>>)
    /\ Get(vInput.obj, "note") = Str(<<>>)
    /\ vResult.error = "itemId: Item ID is required"

====
